---- MODULE Spec2Model ----
(***************************************************************************)
(* Curvee Reactor (src/bezier-curve.js): the state of class CurveeReactor  *)
(* and one action per event handler and per animation frame.               *)
(*                                                                         *)
(* Numbers.  The program computes in IEEE doubles.  The model computes in  *)
(* fixed point: a coordinate, a velocity or a particle life is an integer  *)
(* count of 1/Unit, and a product with a decimal factor is rounded to the  *)
(* nearest unit (Scale).  The physics parameters are integers counting     *)
(* hundredths (stiffness 5 is 0.05).  canvas.width and canvas.height are   *)
(* whole device pixels, as the DOM keeps them.                             *)
(*                                                                         *)
(* Object identity.  mouse.targetPoint is a reference to an element of     *)
(* controlPoints.  It is modelled by the index it was taken from and a     *)
(* flag, live, that is FALSE once reset() has replaced the controlPoints   *)
(* array by fresh objects (the reference then names an orphan).            *)
(*                                                                         *)
(* Return values.  `sample` holds what calculateBezierPoint last returned  *)
(* and the t it was called with; the program hands it to the canvas and    *)
(* keeps it nowhere.                                                       *)
(***************************************************************************)
EXTENDS Integers, Sequences, FiniteSets, TLC

VARIABLES canvas, dpi, initialPoints, controlPoints, physics, mouse,
          particles, random, last, steps, settings, sample

vars == <<canvas, dpi, initialPoints, controlPoints, physics, mouse,
          particles, random, last, steps, settings, sample>>

(***************************************************************************)
(* Bounds of the model and the inputs the environment may supply.          *)
(***************************************************************************)
\* number of handler invocations and frames in one run
MaxSteps == 3

\* number of animation frames in a run of SpecDecay
MaxTicks == 120

\* how many of them may be inputs of the settings panel (a slider, a preset
\* button, the particles checkbox)
MaxSettings == 1

\* container.clientWidth when the page loads and after a resize, CSS pixels
LoadWidths == {800}
Widths == {320, 800}

\* window.devicePixelRatio
Ratios == {1, 2}

\* positions of the mouse (clientX - rect.left, clientY - rect.top), CSS
\* pixels: next to P1's rest pose at width 800, next to P2's rest pose at
\* width 800, and in the corner outside the 30-pixel margin
Pointers == {<<290, 130>>, <<510, 125>>, <<10, 590>>}

\* positions of a touch: next to P1's rest pose at width 800, and the
\* centre of the surface at width 320
Touches == {<<290, 130>>, <<160, 300>>}

\* values the three sliders deliver, hundredths
SliderStiffness == {20}
SliderDamping == {70}
SliderInfluence == {10}

(***************************************************************************)
(* Fixed-point arithmetic.                                                 *)
(***************************************************************************)
Unit == 10 * 10 * 10

Abs(a) == IF a < 0 THEN -a ELSE a

\* q / d rounded to the nearest integer, halves away from zero (d > 0)
Round(q, d) ==
    IF q >= 0 THEN (2 * q + d) \div (2 * d)
    ELSE -((2 * (-q) + d) \div (2 * d))

\* a * (n / d)
Scale(a, n, d) == Round(a * n, d)

Point(px, py) == [x |-> px, y |-> py]

(***************************************************************************)
(* Canvas and rest pose.                                                   *)
(***************************************************************************)
\* canvas.height before the device-pixel scaling (resizeCanvas)
CanvasCssHeight == 600

\* canvas.width / (window.devicePixelRatio || 1), in units
SurfaceWidth(cv, d) == Round(cv.width * Unit, d)

\* canvas.height / (window.devicePixelRatio || 1), in units
SurfaceHeight(cv, d) == Round(cv.height * Unit, d)

\* the canvas after resizeCanvas has set its size for a container of
\* clientWidth CSS pixels: width and height assigned, then multiplied by dpi
SizedCanvas(clientWidth, d) ==
    [width |-> clientWidth * d, height |-> CanvasCssHeight * d]

\* the array calculateInitialPoints assigns to this.initialPoints
RestPose(cv, d) ==
    LET width == SurfaceWidth(cv, d)
        height == SurfaceHeight(cv, d)
    IN  [i \in 0..3 |->
            CASE i = 0 -> Point(Scale(width, 15, 100), Scale(height, 60, 100))
              [] i = 1 -> Point(Scale(width, 35, 100), Scale(height, 20, 100))
              [] i = 2 -> Point(Scale(width, 65, 100), Scale(height, 20, 100))
              [] i = 3 -> Point(Scale(width, 85, 100), Scale(height, 60, 100))]

\* JSON.parse(JSON.stringify(points)): fresh objects holding the x and y of
\* each element and nothing else
JSONClone(points) ==
    [i \in DOMAIN points |-> [x |-> points[i].x, y |-> points[i].y]]

ZeroVelocities == [i \in 0..1 |-> Point(0, 0)]

\* mouse.targetPoint = null
NoTarget == [index |-> 0, live |-> FALSE]

\* a reference to the current controlPoints[i]
TargetOf(i) == [index |-> i, live |-> TRUE]

\* IsTarget with the velocity index (pointIndex = i - 1) taken for the
\* point index
IsTargetByVelocityIndex(m, i) == m.targetPoint = TargetOf(i - 1)

\* this.mouse.targetPoint === this.controlPoints[i]
IsTarget(m, i) == m.targetPoint = TargetOf(i)

(***************************************************************************)
(* Particle system.                                                        *)
(***************************************************************************)
\* What one pass of the createParticles loop draws from Math.random: the
\* velocity cos(angle) * speed, sin(angle) * speed with speed in [1,4), in
\* units, and the values of Math.random() in the expressions of life and
\* decay, in thousandths (0 .. 999 for [0,1)).  size, color and rotation are
\* read by render() alone and are left out.
RandomDraws ==
    << [vx |-> 1000, vy |-> 0, forLife |-> 0, forDecay |-> 750],
       [vx |-> 0, vy |-> -3000, forLife |-> 998, forDecay |-> 0] >>

\* Math.random is a generator with a hidden state: `random` is the place in
\* RandomDraws of the next draw, unknown when the page loads, and the draws
\* go round RandomDraws
Seeds == 1..Len(RandomDraws)

\* the j-th draw from the state `seed`, j = 1, 2, ...
Draw(seed, j) == RandomDraws[((seed + j - 2) % Len(RandomDraws)) + 1]

\* the state of the generator after `count` passes of the createParticles
\* loop, which runs only when particles are enabled
Drawn(enabled, seed, count) ==
    IF ~enabled THEN seed
    ELSE ((seed + count - 1) % Len(RandomDraws)) + 1

\* the object createParticles pushes: life = 0.5 + Math.random() * 0.5 and
\* decay = 0.01 + Math.random() * 0.02.  age is a history field, which the
\* program does not keep: the passes of the updateParticles loop the
\* particle has gone through.
NewParticle(x, y, r) ==
    [x |-> x, y |-> y, vx |-> r.vx, vy |-> r.vy,
     life |-> Scale(Unit, 1, 2) + Scale(r.forLife, 1, 2),
     decay |-> Scale(Unit, 1, 100) + Scale(r.forDecay, 2, 100),
     age |-> 0]

\* createParticles with the loop test written `i <= count`
createParticlesOneMore(enabled, list, x, y, count, seed) ==
    IF ~enabled THEN list
    ELSE list \o [j \in 1..(count + 1) |-> NewParticle(x, y, Draw(seed, j))]

\* createParticles(x, y, count) on the list `list`
createParticles(enabled, list, x, y, count, seed) ==
    IF ~enabled THEN list
    ELSE list \o [j \in 1..count |-> NewParticle(x, y, Draw(seed, j))]

\* AdvanceParticle without the statement `p.life -= p.decay`
AdvanceParticleKeepingLife(p) ==
    LET vy1 == p.vy + Scale(Unit, 1, 10)
    IN  [x |-> p.x + p.vx, y |-> p.y + p.vy,
         vx |-> Scale(p.vx, 98, 100), vy |-> Scale(vy1, 98, 100),
         life |-> p.life, decay |-> p.decay, age |-> p.age + 1]

\* the body of the updateParticles loop up to the test of life
AdvanceParticle(p) ==
    LET vy1 == p.vy + Scale(Unit, 1, 10)
    IN  [x |-> p.x + p.vx, y |-> p.y + p.vy,
         vx |-> Scale(p.vx, 98, 100), vy |-> Scale(vy1, 98, 100),
         life |-> p.life - p.decay, decay |-> p.decay, age |-> p.age + 1]

\* Survives with the test written `p.life < 0`
SurvivesAtZero(p) == ~(p.life < 0)

\* the test `p.life <= 0` of updateParticles, negated: the particle stays
Survives(p) == ~(p.life <= 0)

\* updateParticles(): the loop runs from the last index to the first, so a
\* splice(i, 1) moves only elements it has already visited; every element
\* is advanced once and those whose life is <= 0 are taken out, the others
\* keeping their order
updateParticles(list) ==
    SelectSeq([i \in 1..Len(list) |-> AdvanceParticle(list[i])], Survives)

(***************************************************************************)
(* Core math: the cubic Bezier blend.  t counts tenths, so that the         *)
(* products of a coefficient and a coordinate stay within TLC's integers.  *)
(***************************************************************************)
\* t = 1 in tenths
One == Unit \div (10 * 10)

\* no call of calculateBezierPoint yet
NoSample == [t |-> -1, point |-> Point(0, 0)]

\* one product `coefficient * p.x` of the return expression, the
\* coefficient being c / One^3
Term(c, a) == Scale(a, c, One * One * One)

\* calculateBezierPoint with p2 written for p3 in the last term
calculateBezierPointEndingAtP2(t, cp) ==
    LET u == One - t
        tt == t * t
        uu == u * u
        uuu == uu * u
        ttt == tt * t
    IN  Point(Term(uuu, cp[0].x) + Term(3 * uu * t, cp[1].x)
                  + Term(3 * u * tt, cp[2].x) + Term(ttt, cp[2].x),
              Term(uuu, cp[0].y) + Term(3 * uu * t, cp[1].y)
                  + Term(3 * u * tt, cp[2].y) + Term(ttt, cp[2].y))

\* calculateBezierPoint(t) on the control points cp
calculateBezierPoint(t, cp) ==
    LET u == One - t
        tt == t * t
        uu == u * u
        uuu == uu * u
        ttt == tt * t
    IN  Point(Term(uuu, cp[0].x) + Term(3 * uu * t, cp[1].x)
                  + Term(3 * u * tt, cp[2].x) + Term(ttt, cp[3].x),
              Term(uuu, cp[0].y) + Term(3 * uu * t, cp[1].y)
                  + Term(3 * u * tt, cp[2].y) + Term(ttt, cp[3].y))

(***************************************************************************)
(* Physics simulation.                                                     *)
(***************************************************************************)
\* margin of applyBoundaries, pixels
Margin == 30

\* the pointer as updatePhysics reads it: mouse.x and mouse.y over the ratio
MouseX(m, d) == Round(m.x, d)
MouseY(m, d) == Round(m.y, d)

\* targetX, targetY of updatePhysics for controlPoints[i], i = 1 or 2;
\* influence = mouseInfluence * 0.01, mouseInfluence counted in hundredths
TargetPosition(i, ip, cv, d, m, ph) ==
    LET offX == Scale(MouseX(m, d) - Round(SurfaceWidth(cv, d), 2),
                      ph.mouseInfluence, 100 * 100)
        offY == Scale(MouseY(m, d) - Round(SurfaceHeight(cv, d), 2),
                      ph.mouseInfluence, 100 * 100)
        tx == IF i = 1 THEN ip[i].x + offX ELSE ip[i].x - offX
        ty == ip[i].y + offY
    IN  Point(tx + Scale(m.vx, 1, 2), ty + Scale(m.vy, 1, 2))

\* SpringVelocity with the damping taken off the velocity, as in
\* acceleration = -k * (position - target) - damping * velocity
SpringVelocityDampingAsDrag(point, velocity, target, ph) ==
    Point(velocity.x - Scale(point.x - target.x, ph.stiffness, 100)
                     - Scale(velocity.x, ph.damping, 100),
          velocity.y - Scale(point.y - target.y, ph.stiffness, 100)
                     - Scale(velocity.y, ph.damping, 100))

\* the spring force and the velocity update with damping
SpringVelocity(point, velocity, target, ph) ==
    LET springForceX == -Scale(point.x - target.x, ph.stiffness, 100)
        springForceY == -Scale(point.y - target.y, ph.stiffness, 100)
    IN  Point(Scale(velocity.x, ph.damping, 100) + springForceX,
              Scale(velocity.y, ph.damping, 100) + springForceY)

\* Integrate with the position advanced by the velocity of the frame before
IntegrateWithOldVelocity(point, velocity, target, ph) ==
    LET v == SpringVelocity(point, velocity, target, ph)
    IN  [point |-> Point(point.x + velocity.x, point.y + velocity.y),
         velocity |-> v]

\* velocity update, then position update with the updated velocity
Integrate(point, velocity, target, ph) ==
    LET v == SpringVelocity(point, velocity, target, ph)
    IN  [point |-> Point(point.x + v.x, point.y + v.y), velocity |-> v]

\* applyBoundaries that clamps the position and leaves the velocity alone
applyBoundariesKeepingVelocity(point, velocity, cv, d) ==
    LET margin == Margin * Unit
        width == SurfaceWidth(cv, d)
        height == SurfaceHeight(cv, d)
        x1 == IF point.x < margin THEN margin ELSE point.x
        x2 == IF x1 > width - margin THEN width - margin ELSE x1
        y1 == IF point.y < margin THEN margin ELSE point.y
        y2 == IF y1 > height - margin THEN height - margin ELSE y1
    IN  [point |-> Point(x2, y2), velocity |-> velocity]

\* applyBoundaries with `point.x += margin` and `point.y += margin` written
\* for the assignments of its low tests
applyBoundariesAddingMargin(point, velocity, cv, d) ==
    LET margin == Margin * Unit
        width == SurfaceWidth(cv, d)
        height == SurfaceHeight(cv, d)
        lowX == point.x < margin
        x1 == IF lowX THEN point.x + margin ELSE point.x
        vx1 == IF lowX THEN Scale(velocity.x, -3, 10) ELSE velocity.x
        highX == x1 > width - margin
        x2 == IF highX THEN width - margin ELSE x1
        vx2 == IF highX THEN Scale(vx1, -3, 10) ELSE vx1
        lowY == point.y < margin
        y1 == IF lowY THEN point.y + margin ELSE point.y
        vy1 == IF lowY THEN Scale(velocity.y, -3, 10) ELSE velocity.y
        highY == y1 > height - margin
        y2 == IF highY THEN height - margin ELSE y1
        vy2 == IF highY THEN Scale(vy1, -3, 10) ELSE vy1
    IN  [point |-> Point(x2, y2), velocity |-> Point(vx2, vy2)]

\* applyBoundaries(point, velocity): its four tests in order
applyBoundaries(point, velocity, cv, d) ==
    LET margin == Margin * Unit
        width == SurfaceWidth(cv, d)
        height == SurfaceHeight(cv, d)
        lowX == point.x < margin
        x1 == IF lowX THEN margin ELSE point.x
        vx1 == IF lowX THEN Scale(velocity.x, -3, 10) ELSE velocity.x
        highX == x1 > width - margin
        x2 == IF highX THEN width - margin ELSE x1
        vx2 == IF highX THEN Scale(vx1, -3, 10) ELSE vx1
        lowY == point.y < margin
        y1 == IF lowY THEN margin ELSE point.y
        vy1 == IF lowY THEN Scale(velocity.y, -3, 10) ELSE velocity.y
        highY == y1 > height - margin
        y2 == IF highY THEN height - margin ELSE y1
        vy2 == IF highY THEN Scale(vy1, -3, 10) ELSE vy1
    IN  [point |-> Point(x2, y2), velocity |-> Point(vx2, vy2)]

\* Math.abs(velocity.x) + Math.abs(velocity.y) > 0.5
MovesFast(velocity) == 2 * (Abs(velocity.x) + Abs(velocity.y)) > Unit

\* PhysicsPass with the boundary constraints applied before the test for a
\* dragged point, so that a held point is clamped too
PhysicsPassClampingHeld(i, s, ip, cv, d, m, ph, enabled) ==
    LET held == applyBoundaries(s.controlPoints[i], s.velocities[i - 1],
                                cv, d)
    IN  IF IsTarget(m, i)
        THEN [s EXCEPT !.controlPoints[i] = held.point,
                       !.velocities[i - 1] = Point(0, 0)]
        ELSE LET target == TargetPosition(i, ip, cv, d, m, ph)
                 moved == Integrate(s.controlPoints[i], s.velocities[i - 1],
                                    target, ph)
                 kept == applyBoundaries(moved.point, moved.velocity, cv, d)
             IN  [s EXCEPT !.controlPoints[i] = kept.point,
                           !.velocities[i - 1] = kept.velocity]

\* one pass of the updatePhysics loop, for controlPoints[i]; s holds the
\* control points, the velocities and the particle list so far
PhysicsPass(i, s, ip, cv, d, m, ph, enabled) ==
    IF IsTarget(m, i)
    THEN [s EXCEPT !.velocities[i - 1] = Point(0, 0)]
    ELSE LET target == TargetPosition(i, ip, cv, d, m, ph)
             moved == Integrate(s.controlPoints[i], s.velocities[i - 1],
                                target, ph)
             kept == applyBoundaries(moved.point, moved.velocity, cv, d)
             spawn == enabled /\ MovesFast(kept.velocity)
         IN  [controlPoints |-> [s.controlPoints EXCEPT ![i] = kept.point],
              velocities |-> [s.velocities EXCEPT ![i - 1] = kept.velocity],
              list |-> IF spawn
                       THEN createParticles(enabled, s.list, kept.point.x,
                                            kept.point.y, 1, s.random)
                       ELSE s.list,
              random |-> IF spawn THEN Drawn(enabled, s.random, 1)
                         ELSE s.random]

\* updatePhysics whose test of physics.enabled guards the loop over the
\* points only, so that updateParticles runs on every frame
updatePhysicsAgingWhenPaused(cp, ip, cv, d, m, ph, pt, seed) ==
    LET s0 == [controlPoints |-> cp, velocities |-> ph.velocities,
               list |-> pt.list, random |-> seed]
    IN  IF ~ph.enabled THEN [s0 EXCEPT !.list = updateParticles(s0.list)]
        ELSE LET s1 == PhysicsPass(1, s0, ip, cv, d, m, ph, pt.enabled)
                 s2 == PhysicsPass(2, s1, ip, cv, d, m, ph, pt.enabled)
             IN  [s2 EXCEPT !.list = updateParticles(s2.list)]

\* updatePhysics(): nothing when physics is off; else both passes, then
\* updateParticles
updatePhysics(cp, ip, cv, d, m, ph, pt, seed) ==
    LET s0 == [controlPoints |-> cp, velocities |-> ph.velocities,
               list |-> pt.list, random |-> seed]
    IN  IF ~ph.enabled THEN s0
        ELSE LET s1 == PhysicsPass(1, s0, ip, cv, d, m, ph, pt.enabled)
                 s2 == PhysicsPass(2, s1, ip, cv, d, m, ph, pt.enabled)
             IN  [s2 EXCEPT !.list = updateParticles(s2.list)]

(***************************************************************************)
(* UI methods.                                                             *)
(***************************************************************************)
\* default threshold of getNearestControlPoint, pixels
Threshold == 30

\* Math.sqrt((point.x - x)^2 + (point.y - y)^2) < threshold; the squares are
\* taken only when both differences are below the threshold, which the
\* distance being below it implies
Within(point, x, y) ==
    LET dx == Abs(point.x - x)
        dy == Abs(point.y - y)
        t == Threshold * Unit
    IN  /\ dx < t
        /\ dy < t
        /\ dx * dx + dy * dy < t * t

\* getNearestControlPoint(x, y): the index of the point returned, 0 for null
getNearestControlPoint(cp, x, y) ==
    IF Within(cp[1], x, y) THEN 1
    ELSE IF Within(cp[2], x, y) THEN 2
    ELSE 0

TargetFound(i) == IF i = 0 THEN NoTarget ELSE TargetOf(i)

\* the presets table of applyPreset, hundredths
Presets ==
    [bouncy   |-> [stiffness |-> 2,  damping |-> 85, influence |-> 80],
     stiff    |-> [stiffness |-> 10, damping |-> 95, influence |-> 30],
     fluid    |-> [stiffness |-> 3,  damping |-> 90, influence |-> 120],
     magnetic |-> [stiffness |-> 5,  damping |-> 92, influence |-> 150],
     heavy    |-> [stiffness |-> 8,  damping |-> 98, influence |-> 40],
     light    |-> [stiffness |-> 1,  damping |-> 80, influence |-> 200]]

PresetNames == DOMAIN Presets

\* what a preset button's data-preset may hold: the six names and one that
\* is no key of the table
PresetInputs == PresetNames \cup {"none"}

\* PresetPhysics with the influence stored under the table's key, influence,
\* which updatePhysics does not read, and mouseInfluence left as it was
PresetPhysicsUnderTableKey(ph, preset) ==
    IF preset \in PresetNames
    THEN [ph EXCEPT !.stiffness = Presets[preset].stiffness,
                    !.damping = Presets[preset].damping]
    ELSE ph

\* the three assignments of applyPreset to this.physics
PresetPhysics(ph, preset) ==
    IF preset \in PresetNames
    THEN [ph EXCEPT !.stiffness = Presets[preset].stiffness,
                    !.damping = Presets[preset].damping,
                    !.mouseInfluence = Presets[preset].influence]
    ELSE ph

(***************************************************************************)
(* The state after the constructor.                                        *)
(***************************************************************************)
\* this.physics of initPhysics
InitialPhysics ==
    [enabled |-> TRUE, stiffness |-> 5, damping |-> 90, mouseInfluence |-> 50,
     velocities |-> ZeroVelocities]

\* this.mouse of initPhysics
InitialMouse(cv, d) ==
    [x |-> Round(cv.width * Unit, 2 * d), y |-> Round(cv.height * Unit, 2 * d),
     px |-> 0, py |-> 0, vx |-> 0, vy |-> 0,
     isDown |-> FALSE, targetPoint |-> NoTarget]

\* this.particles of initParticles
InitialParticles == [enabled |-> TRUE, list |-> << >>]

\* the program's state as the history variable `last` keeps it
Snapshot(cv, ip, cp, ph, m, pt) ==
    [canvas |-> cv, initialPoints |-> ip, controlPoints |-> cp,
     physics |-> ph, mouse |-> m, particles |-> pt]

\* the value of `last` after the handler `op` has run on the input
\* (name, x, y) from the state `pre`
Did(op, name, x, y, pre) ==
    [op |-> op, name |-> name, x |-> x, y |-> y, pre |-> pre]

\* constructor(): the init methods in order, then the first animate()
Init ==
    \E w \in LoadWidths, d \in Ratios, seed \in Seeds :
        LET cv == SizedCanvas(w, d)
            ip == RestPose(cv, d)
            after == updatePhysics(JSONClone(ip), ip, cv, d,
                                   InitialMouse(cv, d), InitialPhysics,
                                   InitialParticles, seed)
        IN  /\ dpi = d
            /\ canvas = cv
            /\ initialPoints = ip
            /\ controlPoints = after.controlPoints
            /\ physics = [InitialPhysics EXCEPT !.velocities = after.velocities]
            /\ mouse = InitialMouse(cv, d)
            /\ particles = [InitialParticles EXCEPT !.list = after.list]
            /\ random = after.random
            /\ last = Did("constructor", "", w, 0,
                          Snapshot(cv, ip, JSONClone(ip), InitialPhysics,
                                   InitialMouse(cv, d), InitialParticles))
            /\ steps = 0
            /\ settings = 0
            /\ sample = NoSample

(***************************************************************************)
(* Event handlers and the animation frame.  Every action is one call of a  *)
(* handler; `last` records which, with its input and the state it ran on.  *)
(***************************************************************************)
Record(op, name, x, y) ==
    /\ steps < MaxSteps
    /\ steps' = steps + 1
    /\ last' = Did(op, name, x, y,
                   Snapshot(canvas, initialPoints, controlPoints, physics,
                            mouse, particles))
    /\ UNCHANGED <<settings, sample>>

\* the same for an input of the settings panel
RecordSetting(op, name, x, y) ==
    /\ steps < MaxSteps
    /\ settings < MaxSettings
    /\ steps' = steps + 1
    /\ settings' = settings + 1
    /\ last' = Did(op, name, x, y,
                   Snapshot(canvas, initialPoints, controlPoints, physics,
                            mouse, particles))
    /\ UNCHANGED sample

\* the pointer position a handler stores in mouse.x, mouse.y:
\* (clientX - rect.left) * dpi
DevicePos(e, d) == Point(e[1] * Unit * d, e[2] * Unit * d)

\* the controlPoints after `targetPoint.x = ...; targetPoint.y = ...` of
\* the move handlers: the write reaches controlPoints only through a
\* reference to one of its current elements
Dragged(cp, m, pos, d) ==
    IF m.isDown /\ m.targetPoint # NoTarget /\ m.targetPoint.live
    THEN [cp EXCEPT ![m.targetPoint.index] =
                        Point(Round(pos.x, d), Round(pos.y, d))]
    ELSE cp

\* Math.abs(mouse.vx) > 2 || Math.abs(mouse.vy) > 2
PointerFast(m) == Abs(m.vx) > 2 * Unit \/ Abs(m.vy) > 2 * Unit

\* window 'resize': resizeCanvas()
ResizeCanvas ==
    \E w \in Widths :
        /\ Record("resizeCanvas", "", w, 0)
        /\ canvas' = SizedCanvas(w, dpi)
        /\ initialPoints' = IF ~mouse.isDown THEN RestPose(canvas', dpi)
                            ELSE initialPoints
        /\ UNCHANGED <<dpi, controlPoints, physics, mouse, particles, random>>

\* 'mousemove': handleMouseMove(e)
HandleMouseMove ==
    \E e \in Pointers :
        LET pos == DevicePos(e, dpi)
            m == [mouse EXCEPT !.px = mouse.x, !.py = mouse.y,
                               !.x = pos.x, !.y = pos.y,
                               !.vx = Scale(pos.x - mouse.x, 1, 2),
                               !.vy = Scale(pos.y - mouse.y, 1, 2)]
        IN  /\ Record("handleMouseMove", "", e[1], e[2])
            /\ mouse' = m
            /\ controlPoints' = Dragged(controlPoints, m, pos, dpi)
            /\ particles' =
                   IF PointerFast(m)
                   THEN [particles EXCEPT !.list =
                            createParticles(particles.enabled, particles.list,
                                            Round(pos.x, dpi),
                                            Round(pos.y, dpi), 2, random)]
                   ELSE particles
            /\ random' = IF PointerFast(m)
                         THEN Drawn(particles.enabled, random, 2)
                         ELSE random
            /\ UNCHANGED <<canvas, dpi, initialPoints, physics>>

\* 'mousedown': handleMouseDown(e)
HandleMouseDown ==
    \E e \in Pointers :
        LET pos == DevicePos(e, dpi)
            x == Round(pos.x, dpi)
            y == Round(pos.y, dpi)
        IN  /\ Record("handleMouseDown", "", e[1], e[2])
            /\ mouse' = [mouse EXCEPT
                            !.isDown = TRUE,
                            !.targetPoint = TargetFound(
                                getNearestControlPoint(controlPoints, x, y))]
            /\ particles' =
                   IF particles.enabled
                   THEN [particles EXCEPT !.list =
                            createParticles(particles.enabled, particles.list,
                                            x, y, 15, random)]
                   ELSE particles
            /\ random' = Drawn(particles.enabled, random, 15)
            /\ UNCHANGED <<canvas, dpi, initialPoints, controlPoints, physics>>

\* 'mouseup', 'mouseleave', 'touchend': handleMouseUp(), handleMouseLeave(),
\* handleTouchEnd(), which have the same body
HandleRelease ==
        /\ Record("release", "", 0, 0)
        /\ mouse' = [mouse EXCEPT !.isDown = FALSE, !.targetPoint = NoTarget]
        /\ UNCHANGED <<canvas, dpi, initialPoints, controlPoints, physics,
                       particles, random>>

\* 'touchmove': handleTouchMove(e)
HandleTouchMove ==
    \E e \in Touches :
        LET pos == DevicePos(e, dpi)
            m == [mouse EXCEPT !.x = pos.x, !.y = pos.y]
        IN  /\ Record("handleTouchMove", "", e[1], e[2])
            /\ mouse' = m
            /\ controlPoints' = Dragged(controlPoints, m, pos, dpi)
            /\ UNCHANGED <<canvas, dpi, initialPoints, physics, particles,
                           random>>

\* 'touchstart': handleTouchStart(e)
HandleTouchStart ==
    \E e \in Touches :
        LET pos == DevicePos(e, dpi)
        IN  /\ Record("handleTouchStart", "", e[1], e[2])
            /\ mouse' = [mouse EXCEPT
                            !.x = pos.x, !.y = pos.y, !.isDown = TRUE,
                            !.targetPoint = TargetFound(
                                getNearestControlPoint(controlPoints,
                                    Round(pos.x, dpi), Round(pos.y, dpi)))]
            /\ UNCHANGED <<canvas, dpi, initialPoints, controlPoints, physics,
                           particles, random>>

\* the reference mouse.targetPoint once this.controlPoints holds new objects
Orphaned(target) == IF target = NoTarget THEN target
                    ELSE [target EXCEPT !.live = FALSE]

\* the surface centre, canvas.width / (2 * dpi) and canvas.height / (2 * dpi)
Centre(cv, d) == Point(Round(cv.width * Unit, 2 * d),
                       Round(cv.height * Unit, 2 * d))

\* reset() without its assignment to physics.velocities
resetKeepingVelocities(ip, cv, d, ph, m, pt, seed) ==
    [controlPoints |-> JSONClone(ip),
     velocities |-> ph.velocities,
     targetPoint |-> Orphaned(m.targetPoint),
     list |-> << >>,
     random |-> seed]

\* reset(): the fields it assigns
reset(ip, cv, d, ph, m, pt, seed) ==
    [controlPoints |-> JSONClone(ip),
     velocities |-> ZeroVelocities,
     targetPoint |-> Orphaned(m.targetPoint),
     list |-> IF pt.enabled
              THEN createParticles(pt.enabled, << >>,
                       Round(SurfaceWidth(cv, d), 2),
                       Round(SurfaceHeight(cv, d), 2), 30, seed)
              ELSE << >>,
     random |-> Drawn(pt.enabled, seed, 30)]

\* 'click' on resetBtn: reset()
Reset ==
    LET after == reset(initialPoints, canvas, dpi, physics, mouse, particles,
                       random)
    IN  /\ Record("reset", "", 0, 0)
        /\ controlPoints' = after.controlPoints
        /\ physics' = [physics EXCEPT !.velocities = after.velocities]
        /\ mouse' = [mouse EXCEPT !.targetPoint = after.targetPoint]
        /\ particles' = [particles EXCEPT !.list = after.list]
        /\ random' = after.random
        /\ UNCHANGED <<canvas, dpi, initialPoints>>

\* 'click' on togglePhysicsBtn: togglePhysics()
TogglePhysics ==
    /\ Record("togglePhysics", "", 0, 0)
    /\ physics' = [physics EXCEPT !.enabled = ~physics.enabled]
    /\ UNCHANGED <<canvas, dpi, initialPoints, controlPoints, mouse, particles,
                   random>>

\* 'click' on a preset button: applyPreset(preset)
ApplyPreset ==
    \E preset \in PresetInputs :
        /\ RecordSetting("applyPreset", preset, 0, 0)
        /\ physics' = PresetPhysics(physics, preset)
        /\ particles' =
               IF preset \in PresetNames /\ particles.enabled
               THEN [particles EXCEPT !.list =
                        createParticles(particles.enabled, particles.list,
                            Centre(canvas, dpi).x, Centre(canvas, dpi).y,
                            20, random)]
               ELSE particles
        /\ random' = IF preset \in PresetNames
                     THEN Drawn(particles.enabled, random, 20)
                     ELSE random
        /\ UNCHANGED <<canvas, dpi, initialPoints, controlPoints, mouse>>

\* 'input' on the three sliders
SlideStiffness ==
    \E v \in SliderStiffness :
        /\ RecordSetting("stiffnessSlider", "", v, 0)
        /\ physics' = [physics EXCEPT !.stiffness = v]
        /\ UNCHANGED <<canvas, dpi, initialPoints, controlPoints, mouse,
                       particles, random>>

SlideDamping ==
    \E v \in SliderDamping :
        /\ RecordSetting("dampingSlider", "", v, 0)
        /\ physics' = [physics EXCEPT !.damping = v]
        /\ UNCHANGED <<canvas, dpi, initialPoints, controlPoints, mouse,
                       particles, random>>

SlideInfluence ==
    \E v \in SliderInfluence :
        /\ RecordSetting("influenceSlider", "", v, 0)
        /\ physics' = [physics EXCEPT !.mouseInfluence = v]
        /\ UNCHANGED <<canvas, dpi, initialPoints, controlPoints, mouse,
                       particles, random>>

\* 'change' on particlesToggle
ToggleParticles ==
    \E checked \in BOOLEAN :
        /\ RecordSetting("particlesToggle", IF checked THEN "on" ELSE "off", 0, 0)
        /\ particles' = [particles EXCEPT !.enabled = checked]
        /\ UNCHANGED <<canvas, dpi, initialPoints, controlPoints, physics,
                       mouse, random>>

\* one animation frame: animate(), whose render() changes no state
Animate ==
        LET after == updatePhysics(controlPoints, initialPoints, canvas, dpi,
                                   mouse, physics, particles, random)
        IN  /\ Record("animate", "", 0, 0)
            /\ controlPoints' = after.controlPoints
            /\ physics' = [physics EXCEPT !.velocities = after.velocities]
            /\ particles' = [particles EXCEPT !.list = after.list]
            /\ random' = after.random
            /\ UNCHANGED <<canvas, dpi, initialPoints, mouse>>

Next ==
    \/ ResizeCanvas
    \/ HandleMouseMove
    \/ HandleMouseDown
    \/ HandleRelease
    \/ HandleTouchMove
    \/ HandleTouchStart
    \/ Reset
    \/ TogglePhysics
    \/ ApplyPreset
    \/ SlideStiffness
    \/ SlideDamping
    \/ SlideInfluence
    \/ ToggleParticles
    \/ Animate

Spec == Init /\ [][Next]_vars

(***************************************************************************)
(* The same program some frames after the page has loaded, so that the     *)
(* particles of SpecLate are near the end of their lives.  Two clicks on   *)
(* an empty place of the canvas (a mousedown that selects no point, then a *)
(* mouseup) have each spawned 15 particles and have changed nothing else.  *)
(***************************************************************************)
\* <<a, b>>: the first click came a frames ago, the second b frames ago
ClickAges == {<<19, 17>>}

\* where the clicks were, CSS pixels
ClickAt == <<10, 590>>

\* k calls of updatePhysics on s = the control points, velocities, particle
\* list and generator state (each frame's result is bound as a value before
\* the next frame reads it)
RECURSIVE Frames(_, _, _, _, _, _, _, _)
Frames(k, s, ip, cv, d, m, ph, pt) ==
    IF k = 0 THEN s
    ELSE CHOOSE r \in
             { Frames(k - 1, t, ip, cv, d, m, ph, pt) :
                 t \in { updatePhysics(s.controlPoints, ip, cv, d, m,
                             [ph EXCEPT !.velocities = s.velocities],
                             [pt EXCEPT !.list = s.list], s.random) } } : TRUE

\* the burst of handleMouseDown at ClickAt added to s
Clicked(s, d, pt) ==
    LET pos == DevicePos(ClickAt, d)
    IN  [s EXCEPT !.list = createParticles(pt.enabled, s.list,
                               Round(pos.x, d), Round(pos.y, d), 15,
                               s.random),
                  !.random = Drawn(pt.enabled, s.random, 15)]

InitLate ==
    \E w \in LoadWidths, d \in Ratios, seed \in Seeds, ages \in ClickAges :
        LET cv == SizedCanvas(w, d)
            ip == RestPose(cv, d)
            m == InitialMouse(cv, d)
            ph == InitialPhysics
            pt == InitialParticles
        IN  \E loaded \in { updatePhysics(JSONClone(ip), ip, cv, d, m, ph, pt,
                                           seed) } :
            \E first \in { Frames(ages[1] - ages[2], Clicked(loaded, d, pt),
                                   ip, cv, d, m, ph, pt) } :
            \E second \in { Frames(ages[2] - 1, Clicked(first, d, pt),
                                    ip, cv, d, m, ph, pt) } :
            \E after \in { Frames(1, second, ip, cv, d, m, ph, pt) } :
                /\ getNearestControlPoint(loaded.controlPoints,
                       ClickAt[1] * Unit, ClickAt[2] * Unit) = 0
                /\ getNearestControlPoint(first.controlPoints,
                       ClickAt[1] * Unit, ClickAt[2] * Unit) = 0
                /\ dpi = d
                /\ canvas = cv
                /\ initialPoints = ip
                /\ controlPoints = after.controlPoints
                /\ physics = [ph EXCEPT !.velocities = after.velocities]
                /\ mouse = m
                /\ particles = [pt EXCEPT !.list = after.list]
                /\ random = after.random
                /\ last = Did("animate", "", 0, 0,
                              Snapshot(cv, ip, second.controlPoints,
                                       [ph EXCEPT
                                           !.velocities = second.velocities],
                                       m, [pt EXCEPT !.list = second.list]))
                /\ steps = 0
                /\ settings = 0
                /\ sample = NoSample

SpecLate == InitLate /\ [][Next]_vars

(***************************************************************************)
(* Properties.  `last.op` names the handler that produced the state and    *)
(* `last.pre` is the state it ran on, so a property of one call of a       *)
(* handler is an invariant.                                                *)
(***************************************************************************)
Zero == Point(0, 0)

\* C1: after reset(), whatever the state it ran on, P1 and P2 are at their
\* rest-pose positions and both velocities are {0, 0}.
C1_ResetRestoresRestPose ==
    last.op = "reset" =>
        /\ controlPoints[1] = initialPoints[1]
        /\ controlPoints[2] = initialPoints[2]
        /\ physics.velocities[0] = Zero
        /\ physics.velocities[1] = Zero

\* C1 happens: a reset in the middle of a drag that had moved P1 away from
\* its rest pose, while P2 was moving
C1_Witness ==
    /\ last.op = "reset"
    /\ last.pre.mouse.isDown
    /\ last.pre.mouse.targetPoint = TargetOf(1)
    /\ last.pre.controlPoints[1] # initialPoints[1]
    /\ last.pre.physics.velocities[1] # Zero
    /\ controlPoints[1] = initialPoints[1]
    /\ physics.velocities[1] = Zero

\* C2 as stated: after every animation frame, the velocity of a point under
\* manual control is {0, 0}.
C2_HeldVelocityZeroAfterEveryFrame ==
    \A i \in 1..2 :
        last.op = "animate" /\ last.pre.mouse.targetPoint = TargetOf(i) =>
            physics.velocities[i - 1] = Zero

\* C2 as amended: after every animation frame that runs with physics
\* enabled, the velocity of a point under manual control is {0, 0}.
C2_HeldVelocityZeroWhenEnabled ==
    \A i \in 1..2 :
        last.op = "animate" /\ last.pre.physics.enabled
                            /\ last.pre.mouse.targetPoint = TargetOf(i) =>
            physics.velocities[i - 1] = Zero

\* C2 happens: a frame with physics enabled zeroes the velocity of a held
\* point that was moving
C2_Witness ==
    \E i \in 1..2 :
        /\ last.op = "animate"
        /\ last.pre.physics.enabled
        /\ last.pre.mouse.targetPoint = TargetOf(i)
        /\ last.pre.physics.velocities[i - 1] # Zero
        /\ physics.velocities[i - 1] = Zero


\* the particle outlives the frame: its life less its decay is above 0
OutlivesFrame(p) == p.life - p.decay > 0

\* how many of the first i particles of `old` outlive the frame
Rank(old, i) == Cardinality({j \in 1..i : OutlivesFrame(old[j])})

\* one frame takes the particle list `old` to `new`: every particle of
\* `old` that outlives the frame is in `new`, in its old order, with its
\* life less by its decay (and moved by its velocity); no particle of `new`
\* has a life <= 0; and `new` holds besides at most the two particles the
\* frame itself may spawn
FrameOfParticles(old, new) ==
    /\ Len(new) >= Rank(old, Len(old))
    /\ Len(new) <= Rank(old, Len(old)) + 2
    /\ \A i \in 1..Len(old) :
           OutlivesFrame(old[i]) =>
               /\ new[Rank(old, i)].life = old[i].life - old[i].decay
               /\ new[Rank(old, i)].decay = old[i].decay
               /\ new[Rank(old, i)].x = old[i].x + old[i].vx
               /\ new[Rank(old, i)].y = old[i].y + old[i].vy
    /\ \A k \in 1..Len(new) : new[k].life > 0

\* C3 as stated: on every frame each particle's life is reduced by its decay
\* and the particle is removed exactly when its life becomes <= 0.
C3_EveryFrameAgesParticles ==
    last.op = "animate" =>
        FrameOfParticles(last.pre.particles.list, particles.list)

\* C3 as amended: the same on every frame that runs with physics enabled.
C3_EnabledFrameAgesParticles ==
    last.op = "animate" /\ last.pre.physics.enabled =>
        FrameOfParticles(last.pre.particles.list, particles.list)

\* C3 happens: a frame with physics enabled removes a particle whose life
\* becomes exactly 0 and keeps a later one of the list
C3_Witness ==
    /\ last.op = "animate"
    /\ last.pre.physics.enabled
    /\ \E i, j \in 1..Len(last.pre.particles.list) :
           /\ i < j
           /\ last.pre.particles.list[i].life = last.pre.particles.list[i].decay
           /\ OutlivesFrame(last.pre.particles.list[j])
    /\ Len(particles.list) < Len(last.pre.particles.list)

\* C4: a resize recomputes the rest pose for the new dimensions; when no
\* point is under manual control it leaves P1 and P2 at the new rest pose;
\* when a point is held it leaves that point's position untouched.
C4_ResizeRecentresCurve ==
    last.op = "resizeCanvas" =>
        /\ initialPoints = RestPose(canvas, dpi)
        /\ last.pre.mouse.targetPoint = NoTarget =>
               /\ controlPoints[1] = initialPoints[1]
               /\ controlPoints[2] = initialPoints[2]
        /\ \A i \in 1..2 :
               last.pre.mouse.targetPoint = TargetOf(i) =>
                   controlPoints[i] = last.pre.controlPoints[i]

\* C5: in every reachable state the rest pose is (0.15w, 0.6h), (0.35w, 0.2h),
\* (0.65w, 0.2h), (0.85w, 0.6h) for the current surface width w and height h.
C5_RestPoseFollowsSurface ==
    LET w == SurfaceWidth(canvas, dpi)
        h == SurfaceHeight(canvas, dpi)
    IN  /\ initialPoints[0] = Point(Scale(w, 15, 100), Scale(h, 60, 100))
        /\ initialPoints[1] = Point(Scale(w, 35, 100), Scale(h, 20, 100))
        /\ initialPoints[2] = Point(Scale(w, 65, 100), Scale(h, 20, 100))
        /\ initialPoints[3] = Point(Scale(w, 85, 100), Scale(h, 60, 100))

\* the state s has the default parameters, controlPoints[i] at its rest pose
\* with zero velocity, the pointer (as updatePhysics reads it) at the surface
\* centre and a zero pointer velocity
AtRest(s, i, d) ==
    /\ s.physics.stiffness = 5
    /\ s.physics.damping = 90
    /\ s.physics.mouseInfluence = 50
    /\ s.controlPoints[i] = s.initialPoints[i]
    /\ s.physics.velocities[i - 1] = Zero
    /\ MouseX(s.mouse, d) = Round(SurfaceWidth(s.canvas, d), 2)
    /\ MouseY(s.mouse, d) = Round(SurfaceHeight(s.canvas, d), 2)
    /\ s.mouse.vx = 0
    /\ s.mouse.vy = 0

\* C6: with stiffness 0.05, damping 0.90, influence 0.5, a movable point at
\* its rest pose with zero velocity, the pointer at the surface centre with
\* zero velocity, has the same position and zero velocity after a frame
\* (and so, the frame changing nothing the premise reads, after any number).
C6_RestStaysAtRest ==
    \A i \in 1..2 :
        last.op = "animate" /\ AtRest(last.pre, i, dpi) =>
            /\ controlPoints[i] = last.pre.controlPoints[i]
            /\ physics.velocities[i - 1] = Zero

\* the rows of the presets table as the specification gives them, hundredths
PresetRow(name) ==
    CASE name = "bouncy"   -> <<2, 85, 80>>
      [] name = "stiff"    -> <<10, 95, 30>>
      [] name = "fluid"    -> <<3, 90, 120>>
      [] name = "magnetic" -> <<5, 92, 150>>
      [] name = "heavy"    -> <<8, 98, 40>>
      [] name = "light"    -> <<1, 80, 200>>

SixPresets == {"bouncy", "stiff", "fluid", "magnetic", "heavy", "light"}

\* C7: applyPreset(name), for each of the six names, leaves stiffness, damping
\* and mouseInfluence all three at the preset's row (one handler call sets
\* them, so no state has only some of them new) and changes no control-point
\* position and no velocity.
C7_PresetSetsAllThree ==
    last.op = "applyPreset" /\ last.name \in SixPresets =>
        /\ <<physics.stiffness, physics.damping, physics.mouseInfluence>>
               = PresetRow(last.name)
        /\ controlPoints = last.pre.controlPoints
        /\ physics.velocities = last.pre.physics.velocities

\* C7 happens: applyPreset("stiff") from the default parameters, all three
\* of which it changes, while the points are moving
C7_Witness ==
    /\ last.op = "applyPreset"
    /\ last.name = "stiff"
    /\ last.pre.physics.stiffness # 10
    /\ last.pre.physics.damping # 95
    /\ last.pre.physics.mouseInfluence # 30
    /\ <<physics.stiffness, physics.damping, physics.mouseInfluence>>
           = <<10, 95, 30>>
    /\ physics.velocities[0] # Zero

\* controlPoints[i] is integrated by the frame that starts in state s
Integrated(s, i) ==
    s.physics.enabled /\ s.mouse.targetPoint # TargetOf(i)

\* the target of claim C8 for controlPoints[i] in state s: rest pose, plus
\* mouseInfluence * 0.01 times the pointer's offset from the surface centre
\* (the horizontal part subtracted for P2), plus 0.5 * pointer velocity
ClaimedTarget(s, i, d) ==
    LET offX == Scale(Round(s.mouse.x, d) - Round(SurfaceWidth(s.canvas, d), 2),
                      s.physics.mouseInfluence, 10000)
        offY == Scale(Round(s.mouse.y, d) - Round(SurfaceHeight(s.canvas, d), 2),
                      s.physics.mouseInfluence, 10000)
    IN  Point(s.initialPoints[i].x + (IF i = 2 THEN -offX ELSE offX)
                  + Scale(s.mouse.vx, 5, 10),
              s.initialPoints[i].y + offY + Scale(s.mouse.vy, 5, 10))

\* newVelocity = oldVelocity * damping - stiffness * (position - target)
ClaimedVelocity(s, i, d) ==
    LET t == ClaimedTarget(s, i, d)
        p == s.controlPoints[i]
        v == s.physics.velocities[i - 1]
    IN  Point(Scale(v.x, s.physics.damping, 100)
                  - Scale(p.x - t.x, s.physics.stiffness, 100),
              Scale(v.y, s.physics.damping, 100)
                  - Scale(p.y - t.y, s.physics.stiffness, 100))

\* newPosition = oldPosition + newVelocity
ClaimedPosition(s, i, d) ==
    Point(s.controlPoints[i].x + ClaimedVelocity(s, i, d).x,
          s.controlPoints[i].y + ClaimedVelocity(s, i, d).y)

\* the point p is inside the rectangle the boundary clamp keeps
InsideMargins(p, cv, d) ==
    /\ p.x >= Margin * Unit
    /\ p.x <= SurfaceWidth(cv, d) - Margin * Unit
    /\ p.y >= Margin * Unit
    /\ p.y <= SurfaceHeight(cv, d) - Margin * Unit

\* C8: a frame with physics enabled takes a point that is not held to the
\* claimed position with the claimed velocity, and then applies the boundary
\* clamp to them (which changes nothing when the position is inside the
\* margins).
C8_SpringStep ==
    \A i \in 1..2 :
        last.op = "animate" /\ Integrated(last.pre, i) =>
            LET p == ClaimedPosition(last.pre, i, dpi)
                v == ClaimedVelocity(last.pre, i, dpi)
            IN  /\ [point |-> controlPoints[i],
                    velocity |-> physics.velocities[i - 1]]
                       = applyBoundaries(p, v, canvas, dpi)
                /\ InsideMargins(p, canvas, dpi) =>
                       /\ controlPoints[i] = p
                       /\ physics.velocities[i - 1] = v

\* C8 happens: a frame integrates P2, which was moving, with the pointer off
\* the centre and moving, and the clamp does not interfere
C8_Witness ==
    /\ last.op = "animate"
    /\ Integrated(last.pre, 2)
    /\ last.pre.physics.velocities[1].x # 0
    /\ last.pre.mouse.vx # 0
    /\ MouseX(last.pre.mouse, dpi) # Round(SurfaceWidth(canvas, dpi), 2)
    /\ InsideMargins(ClaimedPosition(last.pre, 2, dpi), canvas, dpi)
    /\ controlPoints[2] # last.pre.controlPoints[2]

\* rounding to the unit: a and b differ by at most one unit
Near(a, b) == Abs(a - b) <= 1

C10_ClampAfterIntegration ==
    \A i \in 1..2 :
        last.op = "animate" /\ Integrated(last.pre, i) =>
            LET p == ClaimedPosition(last.pre, i, dpi)
                v == ClaimedVelocity(last.pre, i, dpi)
                lo == Margin * Unit
                hiX == SurfaceWidth(canvas, dpi) - Margin * Unit
                hiY == SurfaceHeight(canvas, dpi) - Margin * Unit
            IN  /\ InsideMargins(controlPoints[i], canvas, dpi)
                /\ IF p.x < lo \/ p.x > hiX
                   THEN physics.velocities[i - 1].x = Scale(v.x, -3, 10)
                   ELSE /\ physics.velocities[i - 1].x = v.x
                        /\ controlPoints[i].x = p.x
                /\ IF p.y < lo \/ p.y > hiY
                   THEN physics.velocities[i - 1].y = Scale(v.y, -3, 10)
                   ELSE /\ physics.velocities[i - 1].y = v.y
                        /\ controlPoints[i].y = p.y

\* C10 happens: a frame integrates a point to a place right of the right
\* margin, with a velocity the clamp turns round, while its vertical move
\* stays inside
C10_Witness ==
    \E i \in 1..2 :
        /\ last.op = "animate"
        /\ Integrated(last.pre, i)
        /\ ClaimedPosition(last.pre, i, dpi).x
               > SurfaceWidth(canvas, dpi) - Margin * Unit
        /\ ClaimedVelocity(last.pre, i, dpi).x < 0
        /\ physics.velocities[i - 1].x > 0
        /\ controlPoints[i].x = SurfaceWidth(canvas, dpi) - Margin * Unit
        /\ controlPoints[i].y = ClaimedPosition(last.pre, i, dpi).y

(***************************************************************************)
(* applyBoundaries as a function of its inputs: the point and velocity it  *)
(* is given and the canvas it reads.  The page keeps canvas.height at      *)
(* CanvasCssHeight * dpi; the function reads whatever the canvas holds,    *)
(* so a canvas lower than two margins is among the inputs, like one        *)
(* narrower than two margins (a container 40 pixels wide).                 *)
(***************************************************************************)
\* CSS sizes of the canvas applyBoundaries reads
ClampWidths == {40, 320}
ClampHeights == {40, 600}

\* coordinates of the point it is given, pixels: left of or above the
\* margin, on it, inside, and beyond the far margin of either canvas
ClampXs == {-50, 10, 30, 200, 400}
ClampYs == {-20, 30, 100, 700}

\* velocities it is given, units per frame
ClampVelocities == {Point(2000, -1000), Point(0, 0)}

InitClamp ==
    \E w \in ClampWidths, h \in ClampHeights, d \in Ratios,
       x \in ClampXs, y \in ClampYs, v \in ClampVelocities :
        LET cv == [width |-> w * d, height |-> h * d]
            ip == RestPose(cv, d)
            cp == [JSONClone(ip) EXCEPT ![1] = Point(x * Unit, y * Unit)]
            ph == [InitialPhysics EXCEPT !.velocities[0] = v]
        IN  /\ dpi = d
            /\ canvas = cv
            /\ initialPoints = ip
            /\ controlPoints = cp
            /\ physics = ph
            /\ mouse = InitialMouse(cv, d)
            /\ particles = InitialParticles
            /\ random = 1
            /\ last = Did("constructor", "", w, h,
                          Snapshot(cv, ip, cp, ph, InitialMouse(cv, d),
                                   InitialParticles))
            /\ steps = 0
            /\ settings = 0
            /\ sample = NoSample

\* one call applyBoundaries(controlPoints[1], physics.velocities[0])
ApplyBoundaries ==
    LET kept == applyBoundaries(controlPoints[1], physics.velocities[0],
                                canvas, dpi)
    IN  /\ Record("applyBoundaries", "", 0, 0)
        /\ controlPoints' = [controlPoints EXCEPT ![1] = kept.point]
        /\ physics' = [physics EXCEPT !.velocities[0] = kept.velocity]
        /\ UNCHANGED <<canvas, dpi, initialPoints, mouse, particles, random>>

NextClamp == ApplyBoundaries

SpecClamp == InitClamp /\ [][NextClamp]_vars

\* C11: for every point and every surface width and height, applyBoundaries
\* applied a second time leaves the position where the first application
\* put it (SpecClamp has no other action, so from the second step on the
\* state before a call is the result of a call).
C11_ClampIdempotent ==
    last.op = "applyBoundaries" /\ steps >= 2 =>
        controlPoints[1] = last.pre.controlPoints[1]

\* C11 happens: on a surface narrower than two margins, where the low and
\* the high test of the second call both fire again and change the velocity
\* once more, the position after the second call is that after the first
C11_Witness ==
    /\ last.op = "applyBoundaries"
    /\ steps = 2
    /\ SurfaceWidth(canvas, dpi) < 2 * Margin * Unit
    /\ last.pre.controlPoints[1].x < Margin * Unit
    /\ physics.velocities[0] # last.pre.physics.velocities[0]
    /\ controlPoints[1] = last.pre.controlPoints[1]

(***************************************************************************)
(* createParticles, seen at the handlers that call it and do nothing else  *)
(* to the particle list afterwards.                                        *)
(***************************************************************************)
\* the call createParticles(x, y, count) the last handler made, and the
\* list it made it on; count = 0 when it made none.  handleMouseMove calls
\* it on a fast pointer whatever particles.enabled is; handleMouseDown,
\* applyPreset and reset call it when particles.enabled holds, reset after
\* it has emptied the list.
CreateCall ==
    LET none == [count |-> 0, x |-> 0, y |-> 0, list |-> << >>]
        on == last.pre.particles.enabled
        centre == Point(Round(SurfaceWidth(canvas, dpi), 2),
                        Round(SurfaceHeight(canvas, dpi), 2))
    IN  CASE last.op = "handleMouseMove" /\ PointerFast(mouse) ->
                 [count |-> 2, x |-> Round(mouse.x, dpi),
                  y |-> Round(mouse.y, dpi), list |-> last.pre.particles.list]
          [] last.op = "handleMouseDown" /\ on ->
                 [count |-> 15, x |-> last.x * Unit, y |-> last.y * Unit,
                  list |-> last.pre.particles.list]
          [] last.op = "applyPreset" /\ last.name \in SixPresets /\ on ->
                 [count |-> 20, x |-> centre.x, y |-> centre.y,
                  list |-> last.pre.particles.list]
          [] last.op = "reset" /\ on ->
                 [count |-> 30, x |-> centre.x, y |-> centre.y,
                  list |-> << >>]
          [] OTHER -> none

\* `new` is `old` with exactly count particles added, each at (x, y) with
\* life in [0.5, 1.0) and decay in [0.01, 0.03), the particles of `old`
\* unchanged
Added(old, new, x, y, count) ==
    /\ Len(new) = Len(old) + count
    /\ \A i \in 1..Len(old) : new[i] = old[i]
    /\ \A i \in (Len(old) + 1)..Len(new) :
           /\ new[i].x = x
           /\ new[i].y = y
           /\ 2 * new[i].life >= Unit
           /\ new[i].life < Unit
           /\ 100 * new[i].decay >= Unit
           /\ 100 * new[i].decay < 3 * Unit

\* C12 as stated: createParticles(x, y, count) adds exactly count particles
\* at (x, y) with life in [0.5, 1.0) and decay in [0.01, 0.03) and leaves
\* the particles already in the collection unchanged.
C12_CreateAddsCount ==
    CreateCall.count > 0 =>
        Added(CreateCall.list, particles.list, CreateCall.x, CreateCall.y,
              CreateCall.count)

\* C12 as amended: it does so when particles.enabled holds, and when
\* particles.enabled does not hold it adds nothing and changes nothing.
C12_CreateAddsCountWhenEnabled ==
    CreateCall.count > 0 =>
        IF last.pre.particles.enabled
        THEN Added(CreateCall.list, particles.list, CreateCall.x,
                   CreateCall.y, CreateCall.count)
        ELSE particles.list = CreateCall.list

\* C12 happens: a fast mouse move with particles enabled adds its two
\* particles, at the pointer, to a list that held others
C12_Witness ==
    /\ last.op = "handleMouseMove"
    /\ PointerFast(mouse)
    /\ last.pre.particles.enabled
    /\ Len(last.pre.particles.list) > 0
    /\ Len(particles.list) = Len(last.pre.particles.list) + 2
    /\ particles.list[Len(particles.list)].x = last.x * Unit
    /\ particles.list[Len(particles.list)].life
           # particles.list[Len(particles.list) - 1].life

(***************************************************************************)
(* calculateBezierPoint as a function of t and of the four control points, *)
(* which are drawn freely: the function reads whatever controlPoints       *)
(* holds.                                                                  *)
(***************************************************************************)
\* places of the control points, pixels
BezierEnds == {<<120, 360>>, <<-40, 7>>}
BezierInner == {<<280, 120>>, <<30, 570>>, <<-900, 900>>}

\* values of t, tenths: the ends of [0,1] and two places inside
BezierTs == {0, 3, 5, 10}

InitBezier ==
    \E p0 \in BezierEnds, p3 \in BezierEnds, p1 \in BezierInner,
       p2 \in BezierInner, d \in Ratios :
        LET cv == SizedCanvas(800, d)
            ip == RestPose(cv, d)
            cp == [i \in 0..3 |->
                      CASE i = 0 -> Point(p0[1] * Unit, p0[2] * Unit)
                        [] i = 1 -> Point(p1[1] * Unit, p1[2] * Unit)
                        [] i = 2 -> Point(p2[1] * Unit, p2[2] * Unit)
                        [] i = 3 -> Point(p3[1] * Unit, p3[2] * Unit)]
        IN  /\ dpi = d
            /\ canvas = cv
            /\ initialPoints = ip
            /\ controlPoints = cp
            /\ physics = InitialPhysics
            /\ mouse = InitialMouse(cv, d)
            /\ particles = InitialParticles
            /\ random = 1
            /\ last = Did("constructor", "", 0, 0,
                          Snapshot(cv, ip, cp, InitialPhysics,
                                   InitialMouse(cv, d), InitialParticles))
            /\ steps = 0
            /\ settings = 0
            /\ sample = NoSample

\* one call calculateBezierPoint(t)
CalculateBezierPoint ==
    \E t \in BezierTs :
        /\ steps < MaxSteps
        /\ steps' = steps + 1
        /\ last' = Did("calculateBezierPoint", "", t, 0,
                       Snapshot(canvas, initialPoints, controlPoints, physics,
                                mouse, particles))
        /\ sample' = [t |-> t, point |-> calculateBezierPoint(t, controlPoints)]
        /\ UNCHANGED <<canvas, dpi, initialPoints, controlPoints, physics,
                       mouse, particles, random, settings>>

NextBezier == CalculateBezierPoint

SpecBezier == InitBezier /\ [][NextBezier]_vars

\* C13: for any four control points, calculateBezierPoint(0) is P0 and
\* calculateBezierPoint(1) is P3 exactly, wherever P1 and P2 are.
C13_BezierEndpoints ==
    /\ sample.t = 0 => sample.point = controlPoints[0]
    /\ sample.t = One => sample.point = controlPoints[3]

\* C13 happens: calculateBezierPoint(1) has returned P3 for control points
\* of which P0, P1 and P2 are all elsewhere than P3
C13_Witness ==
    /\ last.op = "calculateBezierPoint"
    /\ sample.t = One
    /\ sample.point = controlPoints[3]
    /\ controlPoints[0] # controlPoints[3]
    /\ controlPoints[1] # controlPoints[3]
    /\ controlPoints[2] # controlPoints[3]
    /\ controlPoints[1] # controlPoints[2]

\* C14: in every reachable state P0 and P3 are at the rest-pose positions
\* of P0 and P3, no pointer-down selects them, and no frame and no pointer
\* move changes them.
C14_EndpointsAtRestPose ==
    /\ controlPoints[0] = initialPoints[0]
    /\ controlPoints[3] = initialPoints[3]
    /\ mouse.targetPoint \notin {TargetOf(0), TargetOf(3)}
    /\ last.op \in {"animate", "handleMouseMove", "handleTouchMove"} =>
           /\ controlPoints[0] = last.pre.controlPoints[0]
           /\ controlPoints[3] = last.pre.controlPoints[3]

\* the pointer as the move handlers write it to a held point
PointerPlace == Point(Round(mouse.x, dpi), Round(mouse.y, dpi))

\* C15: while mouse.targetPoint is controlPoints[i], a frame leaves the
\* position of controlPoints[i] as it was; a step changes it, the point
\* staying held, only if the step is a pointer move; and a pointer move
\* sets it to the pointer position.
C15_HeldPointFollowsPointerOnly ==
    \A i \in 1..2 :
        last.pre.mouse.targetPoint = TargetOf(i) =>
            /\ last.op = "animate" =>
                   controlPoints[i] = last.pre.controlPoints[i]
            /\ (/\ mouse.targetPoint = TargetOf(i)
                /\ controlPoints[i] # last.pre.controlPoints[i]) =>
                   last.op \in {"handleMouseMove", "handleTouchMove"}
            /\ last.op \in {"handleMouseMove", "handleTouchMove"} =>
                   controlPoints[i] = PointerPlace

\* C15 happens: P1 has been dragged outside the margins, away from its
\* target, and a frame with physics enabled leaves it there
C15_Witness ==
    /\ last.op = "animate"
    /\ last.pre.physics.enabled
    /\ last.pre.mouse.targetPoint = TargetOf(1)
    /\ ~InsideMargins(controlPoints[1], canvas, dpi)
    /\ controlPoints[1] # initialPoints[1]
    /\ controlPoints[1] = last.pre.controlPoints[1]
    /\ controlPoints[1] = PointerPlace

\* C16: whenever mouse.targetPoint is not null it is the current
\* controlPoints[1] or controlPoints[2]; hence a pointer move while a point
\* is held repositions a point of the curve.
C16_TargetIsLivePoint ==
    /\ mouse.targetPoint # NoTarget =>
           mouse.targetPoint \in {TargetOf(1), TargetOf(2)}
    /\ (/\ last.op \in {"handleMouseMove", "handleTouchMove"}
        /\ last.pre.mouse.targetPoint # NoTarget) =>
           \E i \in 1..2 : controlPoints[i] = PointerPlace

\* the square of the distance from point to (x, y), for a point Within it
Distance2(point, x, y) ==
    (point.x - x) * (point.x - x) + (point.y - y) * (point.y - y)

\* the movable points a pointer-down at (x, y) may take by claim C17: of
\* those at a distance below the threshold the nearest (either of two at
\* the same distance); 0 stands for none
NearestWithin(cp, x, y) ==
    LET near == {i \in 1..2 : Within(cp[i], x, y)}
    IN  IF near = {} THEN {0}
        ELSE {i \in near :
                 \A j \in near :
                     Distance2(cp[i], x, y) <= Distance2(cp[j], x, y)}

\* C17: a pointer-down at (x, y) takes under manual control the movable
\* point nearest to (x, y) if that is at a distance below 30, the closer one
\* when both are, and none when neither is, the engaged flag being set all
\* the same.
C17_PointerDownTakesNearest ==
    last.op \in {"handleMouseDown", "handleTouchStart"} =>
        /\ mouse.isDown
        /\ \E i \in NearestWithin(last.pre.controlPoints,
                                   last.x * Unit, last.y * Unit) :
               mouse.targetPoint = TargetFound(i)

(***************************************************************************)
(* The animation loop left to itself: the page has loaded, one click on an *)
(* empty place of the canvas has spawned 15 particles, and from then on    *)
(* only frames run (requestAnimationFrame calls animate again after every  *)
(* frame, hence the fairness of Tick).  With devicePixelRatio 2 the points *)
(* move at first and spawn particles of their own until they have settled. *)
(***************************************************************************)
InitDecay ==
    \E w \in LoadWidths, d \in Ratios, seed \in Seeds :
        LET cv == SizedCanvas(w, d)
            ip == RestPose(cv, d)
            m == InitialMouse(cv, d)
            ph == InitialPhysics
            pt == InitialParticles
        IN  \E loaded \in { updatePhysics(JSONClone(ip), ip, cv, d, m, ph, pt,
                                           seed) } :
            \E after \in { Clicked(loaded, d, pt) } :
                /\ getNearestControlPoint(loaded.controlPoints,
                       ClickAt[1] * Unit, ClickAt[2] * Unit) = 0
                /\ dpi = d
                /\ canvas = cv
                /\ initialPoints = ip
                /\ controlPoints = after.controlPoints
                /\ physics = [ph EXCEPT !.velocities = after.velocities]
                /\ mouse = m
                /\ particles = [pt EXCEPT !.list = after.list]
                /\ random = after.random
                /\ last = Did("release", "", 0, 0,
                              Snapshot(cv, ip, after.controlPoints,
                                       [ph EXCEPT
                                           !.velocities = after.velocities],
                                       m, [pt EXCEPT !.list = after.list]))
                /\ steps = 0
                /\ settings = 0
                /\ sample = NoSample

\* one animation frame of the loop: animate()
Tick ==
    LET after == updatePhysics(controlPoints, initialPoints, canvas, dpi,
                               mouse, physics, particles, random)
    IN  /\ steps < MaxTicks
        /\ steps' = steps + 1
        /\ last' = Did("animate", "", 0, 0,
                       Snapshot(canvas, initialPoints, controlPoints, physics,
                                mouse, particles))
        /\ controlPoints' = after.controlPoints
        /\ physics' = [physics EXCEPT !.velocities = after.velocities]
        /\ particles' = [particles EXCEPT !.list = after.list]
        /\ random' = after.random
        /\ UNCHANGED <<canvas, dpi, initialPoints, mouse, settings, sample>>

NextDecay == Tick

\* what every Tick step does to the frame counter and no other step of
\* SpecDecay does: the loop is fair to Tick when it is fair to FrameDue,
\* which is enabled exactly when Tick is
FrameDue == steps < MaxTicks /\ steps' = steps + 1

SpecDecay == InitDecay /\ [][NextDecay]_vars /\ WF_steps(FrameDue)

\* C18: with physics enabled no particle is in the collection after its
\* hundredth frame, and once spawning has stopped the collection becomes
\* empty and stays empty.
C18_ParticlesExpire ==
    /\ [](\A i \in 1..Len(particles.list) : particles.list[i].age < 100)
    /\ <>[](particles.list = << >>)

\* C18 happens: a frame removes a particle on its hundredth pass, the last
\* of the collection
C18_Witness ==
    /\ last.op = "animate"
    /\ last.pre.physics.enabled
    /\ \E i \in 1..Len(last.pre.particles.list) :
           last.pre.particles.list[i].age = 99
    /\ particles.list = << >>

\* the simulation state of claim C19 is the same in s and in the current
\* state: the four control points, both velocities, the particle collection
SameSimulation(s) ==
    /\ controlPoints = s.controlPoints
    /\ physics.velocities = s.physics.velocities
    /\ particles.list = s.particles.list

\* C19: while physics is disabled a frame leaves the four control points,
\* both velocities and the whole particle collection unchanged, and a step
\* that changes any of them is a pointer event, a reset, a preset or a
\* resize.
C19_PausedFrameChangesNothing ==
    ~last.pre.physics.enabled =>
        /\ last.op = "animate" => SameSimulation(last.pre)
        /\ ~SameSimulation(last.pre) =>
               last.op \in {"handleMouseMove", "handleMouseDown",
                            "handleTouchMove", "handleTouchStart", "release",
                            "reset", "applyPreset", "resizeCanvas"}

\* C19 happens: a frame runs while physics is disabled, with particles in
\* the collection and a point in motion, and changes none of them
C19_Witness ==
    /\ last.op = "animate"
    /\ ~last.pre.physics.enabled
    /\ Len(last.pre.particles.list) > 0
    /\ last.pre.physics.velocities[0] # Zero
    /\ SameSimulation(last.pre)

\* C20: right after construction (which runs the first frame), whatever the
\* device pixel ratio, the pointer as the integrator reads it is the surface
\* centre and P1 and P2 are at their rest-pose positions with zero
\* velocity.
C20_EquilibriumAfterConstruction ==
    last.op = "constructor" =>
        /\ MouseX(mouse, dpi) = Round(SurfaceWidth(canvas, dpi), 2)
        /\ MouseY(mouse, dpi) = Round(SurfaceHeight(canvas, dpi), 2)
        /\ controlPoints[1] = initialPoints[1]
        /\ controlPoints[2] = initialPoints[2]
        /\ physics.velocities = ZeroVelocities

====
